---- MODULE Spec2Model ----
(***************************************************************************)
(* baconjs-router: route resolution and history synchronisation.           *)
(*                                                                         *)
(* The repository holds two versions of the router module:                 *)
(*   "index"  src/index.js            (validation inside flatMapLatest)    *)
(*   "part"   src/unnamed/part_000    (route table built at construction)  *)
(* A behaviour of the model runs one of them (variable version).           *)
(*                                                                         *)
(* Strings are sequences of tokens.  A token is one character, or one      *)
(* complete percent-escape ("%2F"), or a broken escape ("%E0").            *)
(* A key that is missing from a JavaScript object, and a key that holds    *)
(* undefined, are both the value Absent.                                   *)
(***************************************************************************)
EXTENDS Naturals, Integers, Sequences, FiniteSets, TLC

\* ------------------------------------------------------------------ bounds
MaxRouters == 2
MaxEvents == 2

\* ----------------------------------------------------------------- strings
Absent == "absent"
Null == "null"

Concat(s, t) == s \o t

Drop(s, n) == IF n >= Len(s) THEN <<>> ELSE SubSeq(s, n + 1, Len(s))

Take(s, n) == IF n <= 0 THEN <<>> ELSE SubSeq(s, 1, IF n > Len(s) THEN Len(s) ELSE n)

\* p occurs in s starting at position i
OccursAt(s, p, i) ==
    /\ i >= 1
    /\ i + Len(p) - 1 <= Len(s)
    /\ \A k \in 1..Len(p) : s[i + k - 1] = p[k]

\* String.prototype.indexOf: least position of p in s, 0 when there is none
IndexOf(s, p) ==
    IF \E i \in 1..(Len(s) + 1) : OccursAt(s, p, i)
    THEN CHOOSE i \in 1..(Len(s) + 1) :
            OccursAt(s, p, i) /\ \A j \in 1..(i - 1) : ~OccursAt(s, p, j)
    ELSE 0

\* String.prototype.lastIndexOf restricted to positions >= from
LastIndexFrom(s, p, from) ==
    IF \E i \in from..(Len(s) + 1) : OccursAt(s, p, i)
    THEN CHOOSE i \in from..(Len(s) + 1) :
            OccursAt(s, p, i) /\ \A j \in (i + 1)..(Len(s) + 1) : ~OccursAt(s, p, j)
    ELSE 0

\* location.replace(baseUrl, ''): the first occurrence of p is removed,
\* wherever it is
ReplaceFirst(s, p) ==
    LET i == IndexOf(s, p)
    IN IF i = 0 THEN s ELSE Take(s, i - 1) \o Drop(s, i + Len(p) - 1)

\* position of the first token of s that is in the set cs, Len(s)+1 if none
FirstOf(s, cs) ==
    IF \E i \in 1..Len(s) : s[i] \in cs
    THEN CHOOSE i \in 1..Len(s) : s[i] \in cs /\ \A j \in 1..(i - 1) : s[j] \notin cs
    ELSE Len(s) + 1

\* /^([^?#]*)(?:\?([^#]*))?(?:#(.*))?$/ : <<encodedPath, search, hash>>
SplitRoute(s) ==
    LET p == FirstOf(s, {"?", "#"})
        afterPath == Drop(s, p - 1)
        hasQ == afterPath # <<>> /\ afterPath[1] = "?"
        q == IF hasQ THEN Drop(afterPath, 1) ELSE <<>>
        h == FirstOf(q, {"#"})
        afterQ == IF hasQ THEN Drop(q, h - 1) ELSE afterPath
    IN << Take(s, p - 1),
          IF hasQ THEN Take(q, h - 1) ELSE <<>>,
          IF afterQ # <<>> /\ afterQ[1] = "#" THEN Drop(afterQ, 1) ELSE <<>> >>

\* tokens decodeURIComponent rejects: a bare "%" and a truncated UTF-8 escape
BadEscapes == {"%", "%E0"}

\* one well-formed escape and the character it stands for
DecodeToken(c) == IF c = "%2F" THEN "/" ELSE IF c = "%61" THEN "a" ELSE c

CanDecode(s) == \A i \in 1..Len(s) : s[i] \notin BadEscapes

\* a decoder that leaves every escape as it is
decodeNothing(s) == s

\* decodeURIComponent on a string it accepts
decodeURIComponent(s) == [i \in 1..Len(s) |-> DecodeToken(s[i])]

\* ------------------------------------------------------------ query string
\* String.prototype.split(sep) for a one-token separator
RECURSIVE Split(_, _)
Split(s, sep) ==
    IF FirstOf(s, {sep}) > Len(s)
    THEN <<s>>
    ELSE <<Take(s, FirstOf(s, {sep}) - 1)>> \o Split(Drop(s, FirstOf(s, {sep})), sep)

\* the value of a variable the destructuring found no element for
NoValue == <<"undefined">>

\* Object.assign(acc, {[key]: value}): a mapping is the sequence of its
\* <<key, value>> pairs in insertion order
Assign(acc, key, value) ==
    IF \E i \in 1..Len(acc) : acc[i][1] = key
    THEN [i \in 1..Len(acc) |-> IF acc[i][1] = key THEN <<key, value>> ELSE acc[i]]
    ELSE Append(acc, <<key, value>>)

\* a reducer that gives up the whole mapping on an entry it cannot decode
QueryEntryFailsWhole(acc, pieces) ==
    IF \E k \in 1..Len(pieces) : ~CanDecode(pieces[k])
    THEN <<>>
    ELSE IF pieces[1] = <<>>
    THEN acc
    ELSE Assign(acc, decodeURIComponent(pieces[1]),
                IF Len(pieces) >= 2 THEN decodeURIComponent(pieces[2]) ELSE NoValue)

\* one turn of the reducer for a non-empty entry, pieces being
\* entry.split('=', 2): [key, value] = pieces.map(decodeURIComponent)
QueryEntry(acc, pieces) ==
    IF \E k \in 1..Len(pieces) : ~CanDecode(pieces[k])
    THEN acc
    ELSE IF pieces[1] = <<>>
    THEN acc
    ELSE Assign(acc, decodeURIComponent(pieces[1]),
                IF Len(pieces) >= 2 THEN decodeURIComponent(pieces[2]) ELSE NoValue)

\* search.split('&').reduce(..., {}) over the entries from position k on
RECURSIVE QueryReduce(_, _, _)
QueryReduce(entries, k, acc) ==
    IF k > Len(entries)
    THEN acc
    ELSE IF entries[k] = <<>>
    THEN QueryReduce(entries, k + 1, acc)
    ELSE QueryReduce(entries, k + 1, QueryEntry(acc, Take(Split(entries[k], "="), 2)))

ParseQuery(search) == QueryReduce(Split(search, "&"), 1, <<>>)

\* ------------------------------------------------------------ pathToRegexp
\* Templates are literal tokens, "/" and parameters written ":" name, the
\* name being one token and a parameter being followed by "/" or the end.
\* The compiled expression is anchored, a parameter matches one or more
\* tokens other than "/", and one trailing "/" is optional.
\* what regexp.exec gives: ok, the named parameters (string templates) and
\* the capture groups without the full match (patterns)
Match(ok, params, captures) == [ok |-> ok, params |-> params, captures |-> captures]

NoMatch == Match(FALSE, <<>>, <<>>)

RECURSIVE MatchExact(_, _, _)
MatchExact(t, p, params) ==
    IF t = <<>>
    THEN Match(p = <<>>, params, <<>>)
    ELSE IF t[1] = ":" /\ Len(t) >= 2
    THEN IF FirstOf(p, {"/"}) = 1
         THEN NoMatch
         ELSE MatchExact(Drop(t, 2), Drop(p, FirstOf(p, {"/"}) - 1),
                         Append(params, <<t[2], Take(p, FirstOf(p, {"/"}) - 1)>>))
    ELSE IF p # <<>> /\ p[1] = t[1]
    THEN MatchExact(Drop(t, 1), Drop(p, 1), params)
    ELSE NoMatch

\* s without one trailing "/"
StripSlash(s) == IF s # <<>> /\ s[Len(s)] = "/" THEN Take(s, Len(s) - 1) ELSE s

FirstMatch(a, b) == IF a.ok THEN a ELSE b

pathToRegexp(route, path) ==
    FirstMatch(MatchExact(StripSlash(route), path, <<>>),
               IF path # <<>> /\ path[Len(path)] = "/"
               THEN MatchExact(StripSlash(route), Take(path, Len(path) - 1), <<>>)
               ELSE NoMatch)

\* ------------------------------------------------------------------ RegExp
\* The patterns of the model:  "dot" /./   "lit" /text/   "capLit" /(.+)text/
\* RegExpExec gives [ok, captures], captures being the groups without the
\* full match.
\* the same patterns, executed on the decoded path instead
RegExpExecOnDecodedPath(form, text, s) ==
    LET p == IF CanDecode(SplitRoute(s)[1]) THEN decodeURIComponent(SplitRoute(s)[1])
             ELSE SplitRoute(s)[1]
    IN IF form = "dot"
       THEN Match(p # <<>>, <<>>, <<>>)
       ELSE IF form = "lit"
       THEN Match(IndexOf(p, text) # 0, <<>>, <<>>)
       ELSE IF LastIndexFrom(p, text, 2) = 0
       THEN NoMatch
       ELSE Match(TRUE, <<>>, <<Take(p, LastIndexFrom(p, text, 2) - 1)>>)

RegExpExec(form, text, s) ==
    IF form = "dot"
    THEN Match(s # <<>>, <<>>, <<>>)
    ELSE IF form = "lit"
    THEN Match(IndexOf(s, text) # 0, <<>>, <<>>)
    ELSE IF LastIndexFrom(s, text, 2) = 0
    THEN NoMatch
    ELSE Match(TRUE, <<>>, <<Take(s, LastIndexFrom(s, text, 2) - 1)>>)

\* ----------------------------------------------------------- history records
\* a record that has no location key
NoLocation == <<"undefined">>

HistoryRecord(location, state, title, shouldReplaceState) ==
    [location |-> location, state |-> state, title |-> title,
     shouldReplaceState |-> shouldReplaceState]

\* lodash isEqual on two history records: deep equality, key by key
isEqual(a, b) ==
    /\ a.location = b.location
    /\ a.state = b.state
    /\ a.title = b.title
    /\ a.shouldReplaceState = b.shouldReplaceState

\* the initial value of bacon.update
Seed(baseUrl, initialPath) ==
    HistoryRecord(baseUrl \o <<"/">> \o initialPath, Null, Null, Absent)

\* JavaScript truthiness of a title, a state flag or a location
Truthy(v) == v \notin {Absent, Null, "", "false"}

HasLocation(l) == l # NoLocation /\ l # <<>>

\* ------------------------------------------------------ constructor arguments
Str(t) == [type |-> "string", form |-> "", text |-> t]
Re(f, t) == [type |-> "regexp", form |-> f, text |-> t]
Fn == [type |-> "function", form |-> "", text |-> <<>>]
\* a handler that throws when it is called
FnThrows == [type |-> "function", form |-> "throws", text |-> <<>>]
Num == [type |-> "number", form |-> "", text |-> <<>>]
Undefined == [type |-> "undefined", form |-> "", text |-> <<>>]

\* array[i] for a 1-based i: undefined past the end
At(array, i) == IF i >= 1 /\ i <= Len(array) THEN array[i] ELSE Undefined

\* ---------------------------------------------------- results of a resolution
\* kind: "handler" (the handler of entry `entry` was called and its stream is
\* returned), "never" (bacon.never()), "error" (a bacon.Error value),
\* "throw" (an exception left the flatMapLatest callback).
\* tried is the number of entries the loop looked at.
\* A string-template handler is called with {params, query, hash}, a
\* pattern handler with the captures; the fields a call does not pass are
\* empty.
Result(kind, entry, tried, params, captures, query, hash) ==
    [kind |-> kind, entry |-> entry, tried |-> tried, params |-> params,
     captures |-> captures, query |-> query, hash |-> hash]

\* a stream that ends at once, like bacon.once() without a value
EndsAtOnce(tried) == Result("end", 0, tried, <<>>, <<>>, <<>>, <<>>)

Never(tried) == Result("never", 0, tried, <<>>, <<>>, <<>>, <<>>)
ErrorValue(tried) == Result("error", 0, tried, <<>>, <<>>, <<>>, <<>>)
Thrown(tried) == Result("throw", 0, tried, <<>>, <<>>, <<>>, <<>>)

\* --------------------------------------------------- src/index.js: resolution
\* the for loop over routesAndReturns, i being the 1-based position of a
\* route; IndexMatched is the rest of one turn once the route was executed
RECURSIVE IndexLoop(_, _, _, _)
IndexMatched(routesAndReturns, i, currentRoute, parts, m) ==
    IF m.ok /\ routesAndReturns[i + 1] = FnThrows
    THEN Thrown((i + 1) \div 2)
    ELSE IF m.ok
    THEN Result("handler", (i + 1) \div 2, (i + 1) \div 2, m.params, m.captures,
                IF routesAndReturns[i].type = "string" THEN ParseQuery(parts[2]) ELSE <<>>,
                IF routesAndReturns[i].type = "string" THEN parts[3] ELSE <<>>)
    ELSE IndexLoop(routesAndReturns, i + 2, currentRoute, parts)

IndexLoop(routesAndReturns, i, currentRoute, parts) ==
    IF i > Len(routesAndReturns)
    THEN Never((i - 1) \div 2)
    ELSE IF At(routesAndReturns, i + 1).type # "function"
    THEN Thrown((i + 1) \div 2)
    ELSE IF routesAndReturns[i].type = "string"
    THEN IndexMatched(routesAndReturns, i, currentRoute, parts,
             pathToRegexp(IF routesAndReturns[i].text = <<>> THEN <<"/">>
                          ELSE routesAndReturns[i].text,
                          decodeURIComponent(parts[1])))
    ELSE IF routesAndReturns[i].type = "regexp"
    THEN IndexMatched(routesAndReturns, i, currentRoute, parts,
             RegExpExec(routesAndReturns[i].form, routesAndReturns[i].text, currentRoute))
    ELSE Thrown((i + 1) \div 2)

\* currentRoute of src/index.js: location.replace(baseUrl, '') || '/'
IndexCurrentRoute(baseUrl, location) ==
    LET stripped == ReplaceFirst(location, baseUrl)
    IN IF stripped = <<>> THEN <<"/">> ELSE stripped

\* a loop that starts at the second pair
IndexResolveSkipsFirst(baseUrl, routesAndReturns, history) ==
    IndexLoop(routesAndReturns, 3, IndexCurrentRoute(baseUrl, history.location),
              SplitRoute(IndexCurrentRoute(baseUrl, history.location)))

\* the flatMapLatest callback of src/index.js
IndexResolve(baseUrl, routesAndReturns, history) ==
    IF history.location = NoLocation
    THEN Thrown(0)
    ELSE IF ~CanDecode(SplitRoute(IndexCurrentRoute(baseUrl, history.location))[1])
    THEN ErrorValue(0)
    ELSE IndexLoop(routesAndReturns, 1, IndexCurrentRoute(baseUrl, history.location),
                   SplitRoute(IndexCurrentRoute(baseUrl, history.location)))

\* ------------------------------------------- src/unnamed/part_000: route table
\* lodash chunk(array, size)
RECURSIVE chunk(_, _)
chunk(array, size) ==
    IF array = <<>> THEN <<>>
    ELSE <<Take(array, size)>> \o chunk(Drop(array, size), size)

\* chunk is called with the array alone, and lodash then uses size 1
ChunkSize == 1

\* one [route, handler] chunk compiled by the map callback; ok is FALSE when
\* the callback throws
CompileEntry(c, i) ==
    LET route == At(c, 1)
        handler == At(c, 2)
    IN IF handler.type # "function"
       THEN [ok |-> FALSE, type |-> "", form |-> "", text |-> <<>>, handler |-> 0,
             throws |-> FALSE]
       ELSE IF route.type \in {"string", "regexp"}
       THEN [ok |-> TRUE, type |-> route.type, form |-> route.form, text |-> route.text,
             handler |-> i, throws |-> handler = FnThrows]
       ELSE [ok |-> FALSE, type |-> "", form |-> "", text |-> <<>>, handler |-> 0,
             throws |-> FALSE]

\* routesAndHandlers; ok is FALSE when the construction throws
BuildTable(routesAndReturns) ==
    LET chunks == chunk(routesAndReturns, ChunkSize)
        compiled == [i \in 1..Len(chunks) |-> CompileEntry(chunks[i], i)]
    IN [ok |-> \A i \in 1..Len(chunks) : compiled[i].ok, table |-> compiled]

\* the for loop over routesAndHandlers; PartMatched is the rest of one turn
\* once the entry was called
RECURSIVE PartLoop(_, _, _)
PartMatched(routesAndHandlers, i, currentRoute, m) ==
    IF m.ok /\ routesAndHandlers[i].throws
    THEN ErrorValue(i)
    ELSE IF m.ok
    THEN Result("handler", i, i, m.params, m.captures,
                IF routesAndHandlers[i].type = "string"
                THEN ParseQuery(SplitRoute(currentRoute)[2]) ELSE <<>>,
                IF routesAndHandlers[i].type = "string" THEN SplitRoute(currentRoute)[3]
                ELSE <<>>)
    ELSE PartLoop(routesAndHandlers, i + 1, currentRoute)

PartLoop(routesAndHandlers, i, currentRoute) ==
    IF i > Len(routesAndHandlers)
    THEN Never(i - 1)
    ELSE IF routesAndHandlers[i].type = "string"
    THEN IF ~CanDecode(SplitRoute(currentRoute)[1])
         THEN ErrorValue(i)
         ELSE PartMatched(routesAndHandlers, i, currentRoute,
                  pathToRegexp(routesAndHandlers[i].text,
                               decodeURIComponent(SplitRoute(currentRoute)[1])))
    ELSE PartMatched(routesAndHandlers, i, currentRoute,
             RegExpExec(routesAndHandlers[i].form, routesAndHandlers[i].text, currentRoute))

\* currentRoute of src/unnamed/part_000: location.replace(baseUrl, '')
PartCurrentRoute(baseUrl, location) == ReplaceFirst(location, baseUrl)

\* the flatMapLatest callback of src/unnamed/part_000
PartResolve(baseUrl, routesAndHandlers, history) ==
    IF history.location = NoLocation
    THEN Thrown(0)
    ELSE PartLoop(routesAndHandlers, 1, PartCurrentRoute(baseUrl, history.location))

\* --------------------------------------------------------- a router instance
\* the state of skipDuplicates before the first value went through
NoRecord == HistoryRecord(<<"none">>, Absent, Absent, Absent)

\* one call of the host: window.document.title = .., history.replaceState,
\* history.pushState, location.reload; by is the router (0: the listener)
HostCall(call, by, state, title, location) ==
    [call |-> call, by |-> by, state |-> state, title |-> title, location |-> location]

\* what one baconRouter call leaves behind.  resolved holds one Result for
\* each value that went into flatMapLatest; wrote records that the router
\* has called replaceState or pushState.
Router(baseUrl, initialPath, routesAndReturns, routesAndHandlers, bus) ==
    [baseUrl |-> baseUrl,
     initialPath |-> initialPath,
     routesAndReturns |-> routesAndReturns,
     routesAndHandlers |-> routesAndHandlers,
     bus |-> bus,
     current |-> Seed(baseUrl, initialPath),
     lastEmitted |-> NoRecord,
     hasBooted |-> FALSE,
     resolved |-> <<>>,
     ended |-> FALSE,
     wrote |-> FALSE]

\* a guard that forgets the pause flag
SkipsHostWriteOutsideBrowser(paused, isBrowser) == ~isBrowser

\* a guard that forgets where the code runs
SkipsHostWriteWhenPaused(paused, isBrowser) == paused

\* the guard of doAction: no host call is made
SkipsHostWrite(paused, isBrowser) == paused \/ ~isBrowser

\* a flag that every emission sets
BootedAfterAnyEmission(skipped, hasBooted) == TRUE

\* hasBaconRouterBooted after one run of the doAction callback: a run that
\* returned at the guard leaves it, a run that wrote has it set
BootedAfter(skipped, hasBooted) == IF skipped THEN hasBooted ELSE TRUE

\* the doAction callback: [calls, hasBooted, docTitle, href]
doAction(ver, isBrowser, paused, r, id, h, docT, loc) ==
    IF SkipsHostWrite(paused, isBrowser)
    THEN [calls |-> <<>>, hasBooted |-> BootedAfter(TRUE, r.hasBooted), docTitle |-> docT,
          href |-> loc]
    ELSE LET thisTitle == IF Truthy(h.title) THEN h.title ELSE docT
             thisLocation == IF HasLocation(h.location) THEN h.location ELSE loc
             write == HostCall("writeTitle", id, Absent, thisTitle, NoLocation)
             entry(call) == HostCall(call, id, h.state, thisTitle, thisLocation)
             moved == IF HasLocation(h.location) THEN h.location ELSE loc
         IN IF ver = "part" /\ r.hasBooted /\ Truthy(h.shouldReplaceState)
            THEN [calls |-> <<write, entry("replaceState")>>,
                  hasBooted |-> BootedAfter(FALSE, r.hasBooted),
                  docTitle |-> thisTitle, href |-> moved]
            ELSE IF r.hasBooted
            THEN [calls |-> <<write, entry("pushState")>>,
                  hasBooted |-> BootedAfter(FALSE, r.hasBooted),
                  docTitle |-> thisTitle, href |-> moved]
            ELSE [calls |-> <<write, entry("replaceState")>>,
                  hasBooted |-> BootedAfter(FALSE, r.hasBooted),
                  docTitle |-> thisTitle, href |-> loc]

\* a comparison of the locations alone
skipDuplicatesByLocation(prev, h) == prev = NoRecord \/ prev.location # h.location

\* skipDuplicates(isEqual): does the value go through
skipDuplicates(prev, h) == prev = NoRecord \/ ~isEqual(prev, h)

\* the flatMapLatest callback of the running version
Resolve(ver, r, h) ==
    IF ver = "index"
    THEN IndexResolve(r.baseUrl, r.routesAndReturns, h)
    ELSE PartResolve(r.baseUrl, r.routesAndHandlers, h)

\* a stream that treats an error value as its end
EndsOutputOnError(res) == res.kind \in {"end", "error"}

\* does the value the flatMapLatest callback returned end the router's
\* output: a Bacon stream ends on an End event alone, and the callback
\* returns a handler's stream, bacon.never() or a bacon.Error
EndsOutput(res) == res.kind = "end"

\* One value h going through update, doAction, skipDuplicates and
\* flatMapLatest of router r: act is what doAction did, pass whether
\* skipDuplicates lets h through, res what the flatMapLatest callback gives.
\* An exception leaves the callback and the stream of the record before
\* stays the latest one.
Delivered(r, id, h, paused, act, pass, res) ==
    [router |-> [r EXCEPT
                   !.current = h,
                   !.hasBooted = act.hasBooted,
                   !.lastEmitted = IF pass THEN h ELSE @,
                   !.resolved = IF pass /\ res.kind # "throw" THEN Append(@, res) ELSE @,
                   !.ended = @ \/ (pass /\ EndsOutput(res)),
                   !.wrote = @ \/ act.calls # <<>>],
     calls |-> act.calls,
     docTitle |-> act.docTitle,
     href |-> act.href,
     threw |-> (pass /\ res.kind = "throw"),
     delivery |-> [router |-> id, record |-> h, before |-> r.current,
                   duplicate |-> (r.current = h),
                   bootedBefore |-> r.hasBooted, booted |-> act.hasBooted,
                   calls |-> act.calls,
                   emitted |-> pass, paused |-> paused,
                   genBefore |-> Len(r.resolved),
                   gen |-> IF pass /\ res.kind # "throw" THEN Len(r.resolved) + 1
                           ELSE Len(r.resolved),
                   kind |-> IF pass THEN res.kind ELSE "skipped",
                   entry |-> IF pass THEN res.entry ELSE 0,
                   tried |-> IF pass THEN res.tried ELSE 0]]

Deliver(ver, isBrowser, paused, r, id, h, docT, loc) ==
    Delivered(r, id, h, paused,
              doAction(ver, isBrowser, paused, r, id, h, docT, loc),
              ~r.ended /\ skipDuplicates(r.lastEmitted, h),
              Resolve(ver, r, h))

\* what a bus push has done so far
Pushed(rs, calls, docT, loc, threw, deliveries) ==
    [routers |-> rs, calls |-> calls, docTitle |-> docT, href |-> loc, threw |-> threw,
     deliveries |-> deliveries]

\* a push after one more subscriber got the value
PushedTo(acc, id, d) ==
    Pushed([acc.routers EXCEPT ![id] = d.router], acc.calls \o d.calls, d.docTitle,
           d.href, d.threw, Append(acc.deliveries, d.delivery))

\* bus.push(h): the subscribers get h one after the other, in the order
\* they subscribed; an exception ends the push
RECURSIVE BusPush(_, _, _, _, _, _, _)
BusPush(ver, isBrowser, paused, order, k, h, acc) ==
    IF k > Len(order) \/ acc.threw
    THEN acc
    ELSE BusPush(ver, isBrowser, paused, order, k + 1, h,
                 PushedTo(acc, order[k],
                          Deliver(ver, isBrowser, paused, acc.routers[order[k]], order[k], h,
                                  acc.docTitle, acc.href)))

\* ------------------------------------------------------------------ inputs
BaseUrl == <<"h">>

InitialPaths == {<<"a">>}

\* argument lists given to baconRouter after baseUrl and initialPath
ArgLists ==
    { <<>>,
      <<Str(<<"/", "a">>), Fn>>,
      <<Str(<<"/", "b">>), Fn, Re("dot", <<>>), Fn, Re("lit", <<"a">>), Fn>>,
      <<Str(<<"/", "a">>), Fn, Re("dot", <<>>), Num>>,
      <<Re("lit", <<"b">>), Fn, Num, Fn>> }

\* records the application pushes onto the bus
Pushes ==
    { HistoryRecord(<<"h", "/", "a">>, Null, Null, Absent),
      HistoryRecord(<<"h", "/", "a">>, Null, Null, "true"),
      HistoryRecord(<<"h", "/", "a">>, Null, "t1", Absent),
      HistoryRecord(<<"h", "/", "a">>, "s1", Null, Absent),
      HistoryRecord(<<"h", "/", "b">>, "s1", "t1", Absent),
      HistoryRecord(<<"h", "/", "%E0">>, Null, Null, Absent),
      HistoryRecord(NoLocation, "s1", Null, Absent) }

\* event.state of a popstate event; NoPayload is a null event.state
NoPayload == [state |-> Absent, title |-> Absent, location |-> NoLocation]

Payloads ==
    { NoPayload,
      [state |-> "s1", title |-> "t1", location |-> <<"h", "/", "b">>],
      [state |-> "s1", title |-> Null, location |-> NoLocation] }

\* ------------------------------------------------------------------- state
\* The page had set window.onpopstate and window.onbeforeunload before the
\* first router was constructed, every router is constructed with the same
\* route arguments, and the caller subscribes to the stream baconRouter
\* returns as soon as it has it.
VARIABLES
    version,        \* which of the two source files runs
    browser,        \* process && process.browser
    appRoutes,      \* the route arguments the application constructs routers with
    pauseUpdating,  \* module variable
    historyBus,     \* module variable: 0 is undefined, else the bus
    buses,          \* number of bacon.Bus objects created so far
    routers,        \* the routers constructed, in order
    listeners,      \* the listenToPopState installations, innermost first
    timers,         \* setTimeout callbacks not run yet
    docTitle,       \* window.document.title
    href,           \* window.location.href
    unloading,      \* the installed onbeforeunload handler has run
    nEvents,        \* pushes and notifications so far
    last,           \* what the last step did
    trial           \* one call of the flatMapLatest callback taken alone

vars == <<version, browser, appRoutes, pauseUpdating, historyBus, buses, routers,
          listeners, timers, docTitle, href, unloading, nEvents, last, trial>>

Step(op) ==
    [op |-> op, router |-> 0, calls |-> <<>>, threw |-> "no", pushed |-> <<>>,
     deliveries |-> <<>>, nativePop |-> 0, nativeUnload |-> 0, payload |-> FALSE,
     installed |-> 0, gen |-> 0, forwarded |-> FALSE, pauseBefore |-> FALSE, bus |-> 0,
     stateData |-> NoPayload, timersBefore |-> 0]

\* a call of the flatMapLatest callback: the route arguments of the router,
\* the record, and what the call gave once it was made
Trial(routesAndReturns, history, done, result) ==
    [routesAndReturns |-> routesAndReturns, history |-> history, done |-> done,
     result |-> result]

NoTrial == Trial(<<>>, NoRecord, FALSE, Never(0))

Init ==
    /\ version \in {"index", "part"}
    /\ browser \in BOOLEAN
    /\ appRoutes \in ArgLists
    /\ pauseUpdating = FALSE
    /\ historyBus = 0
    /\ buses = 0
    /\ routers = <<>>
    /\ listeners = <<>>
    /\ timers = 0
    /\ docTitle = "doc"
    /\ href = <<"h", "/">>
    /\ unloading = FALSE
    /\ nEvents = 0
    /\ last = Step("init")
    /\ trial = NoTrial

\* an accessor that makes a bus at every call
getBaconRouterHistoryBusAlwaysNew(isBrowser, hb, n) ==
    [bus |-> n + 1, historyBus |-> hb, buses |-> n + 1]

\* an accessor that keeps one bus whatever the context
getBaconRouterHistoryBusAlwaysShared(isBrowser, hb, n) ==
    IF hb = 0
    THEN [bus |-> n + 1, historyBus |-> n + 1, buses |-> n + 1]
    ELSE [bus |-> hb, historyBus |-> hb, buses |-> n]

\* getBaconRouterHistoryBus(): [bus, historyBus, buses]
getBaconRouterHistoryBus(isBrowser, hb, n) ==
    IF isBrowser
    THEN IF hb = 0
         THEN [bus |-> n + 1, historyBus |-> n + 1, buses |-> n + 1]
         ELSE [bus |-> hb, historyBus |-> hb, buses |-> n]
    ELSE [bus |-> n + 1, historyBus |-> hb, buses |-> n + 1]

\* listenToPopState(bus): the handlers installed afterwards
listenToPopState(isBrowser, installed, bus) ==
    IF isBrowser THEN Append(installed, bus) ELSE installed

\* does baconRouter(baseUrl, initialPath, ...routesAndReturns) throw
ConstructionThrows(ver, routesAndReturns) ==
    ver = "part" /\ ~BuildTable(routesAndReturns).ok

\* the router made by a construction that did not throw, its seed going
\* through the pipeline: got is the bus, d the delivery of the seed
Constructed(got, id, d) ==
    /\ historyBus' = got.historyBus
    /\ buses' = got.buses
    /\ routers' = Append(routers, d.router)
    /\ listeners' = listenToPopState(browser, listeners, got.bus)
    /\ docTitle' = d.docTitle
    /\ href' = d.href
    /\ last' = [Step("baconRouter") EXCEPT
                  !.router = id, !.calls = d.calls, !.bus = got.bus,
                  !.threw = IF d.threw THEN "subscribe" ELSE "no",
                  !.deliveries = <<d.delivery>>, !.pauseBefore = pauseUpdating]

NewRouter(initialPath, routesAndReturns, bus) ==
    Router(BaseUrl, initialPath, routesAndReturns,
           IF version = "part" THEN BuildTable(routesAndReturns).table ELSE <<>>, bus)

\* baconRouter(baseUrl, initialPath, ...routesAndReturns), and the caller
\* subscribing to the stream it returns: the seed goes through the pipeline.
\* threw says where an exception came from: "baconRouter", "subscribe", "no".
baconRouter(initialPath, routesAndReturns) ==
    /\ Len(routers) < MaxRouters
    /\ IF ConstructionThrows(version, routesAndReturns)
       THEN /\ last' = [Step("baconRouter") EXCEPT !.threw = "baconRouter"]
            /\ UNCHANGED <<historyBus, buses, routers, listeners, docTitle, href>>
       ELSE Constructed(
                getBaconRouterHistoryBus(browser, historyBus, buses),
                Len(routers) + 1,
                Deliver(version, browser, pauseUpdating,
                        NewRouter(initialPath, routesAndReturns,
                                  getBaconRouterHistoryBus(browser, historyBus, buses).bus),
                        Len(routers) + 1, Seed(BaseUrl, initialPath), docTitle, href))
    /\ UNCHANGED <<version, browser, appRoutes, pauseUpdating, timers, unloading, nEvents,
                   trial>>

\* subscribers of bus b, in subscription order
SubscribersOf(b) ==
    SelectSeq([i \in 1..Len(routers) |-> i], LAMBDA i : routers[i].bus = b)

\* the state after a push: got is the bus, done the finished push
AfterPush(got, h, done) ==
    /\ historyBus' = got.historyBus
    /\ buses' = got.buses
    /\ routers' = done.routers
    /\ docTitle' = done.docTitle
    /\ href' = done.href
    /\ last' = [Step("push") EXCEPT
                  !.calls = done.calls, !.bus = got.bus,
                  !.threw = IF done.threw THEN "push" ELSE "no",
                  !.pushed = <<h>>, !.deliveries = done.deliveries,
                  !.pauseBefore = pauseUpdating]

\* the application pushes h: getBaconRouterHistoryBus().push(h)
Push(h) ==
    /\ nEvents < MaxEvents
    /\ AfterPush(getBaconRouterHistoryBus(browser, historyBus, buses), h,
                 BusPush(version, browser, pauseUpdating,
                         SubscribersOf(getBaconRouterHistoryBus(browser, historyBus, buses).bus),
                         1, h, Pushed(routers, <<>>, docTitle, href, FALSE, <<>>)))
    /\ nEvents' = nEvents + 1
    /\ UNCHANGED <<version, browser, appRoutes, pauseUpdating, listeners, timers, unloading,
                   trial>>

\* what the popstate handlers have done so far
Popped(pushedSoFar, paused, pending, pushedRecords, native) ==
    [push |-> pushedSoFar, paused |-> paused, timers |-> pending,
     pushed |-> pushedRecords, native |-> native]

\* The window.onpopstate installed by the k-th listenToPopState call, for an
\* event whose event.state is stateData; its originalOnPopState is the
\* handler of installation k - 1, and installation 0 stands for the handler
\* the page had set before.  An exception in historyBus.push ends the
\* handler and those that called it.  ReloadsPage is the test !event.state.
\* a handler without the reload branch
ReloadsNever(stateData) == FALSE

\* a handler that tests the state field of the payload
ReloadsWithoutState(stateData) == stateData.state \in {Absent, Null}

ReloadsPage(stateData) == stateData = NoPayload

\* one handler after its historyBus.push(h): p is the finished push
AfterPopPush(acc, stateData, h, p) ==
    IF p.threw
    THEN Popped(p, TRUE, acc.timers, Append(acc.pushed, h), acc.native)
    ELSE Popped([p EXCEPT
                   !.docTitle = IF Truthy(stateData.title) THEN stateData.title ELSE @,
                   !.calls = Append(@, HostCall("writeTitle", 0, Absent,
                                                IF Truthy(stateData.title) THEN stateData.title
                                                ELSE p.docTitle,
                                                NoLocation))],
                TRUE, acc.timers + 1, Append(acc.pushed, h), acc.native)

RECURSIVE onpopstate(_, _, _)
onpopstate(k, stateData, acc) ==
    IF acc.push.threw
    THEN acc
    ELSE IF k = 0
    THEN [acc EXCEPT !.native = @ + 1]
    ELSE IF ReloadsPage(stateData)
    THEN [acc EXCEPT !.push.calls =
             Append(@, HostCall("reload", 0, Absent, Absent, NoLocation))]
    ELSE onpopstate(k - 1, stateData,
             AfterPopPush(acc, stateData,
                 HistoryRecord(stateData.location, stateData.state, stateData.title, Absent),
                 BusPush(version, browser, TRUE, SubscribersOf(listeners[k]), 1,
                         HistoryRecord(stateData.location, stateData.state, stateData.title,
                                       Absent),
                         acc.push)))

\* the state after a popstate event: done is what the handlers did
AfterPopState(stateData, done) ==
    /\ routers' = done.push.routers
    /\ docTitle' = done.push.docTitle
    /\ href' = done.push.href
    /\ pauseUpdating' = done.paused
    /\ timers' = done.timers
    /\ last' = [Step("popstate") EXCEPT
                  !.calls = done.push.calls,
                  !.threw = IF done.push.threw THEN "push" ELSE "no",
                  !.pushed = done.pushed, !.deliveries = done.push.deliveries,
                  !.nativePop = done.native, !.payload = stateData # NoPayload,
                  !.installed = Len(listeners), !.pauseBefore = pauseUpdating,
                  !.stateData = stateData, !.timersBefore = timers]

\* the payloads of the host entries written in the step before: the first
\* argument of replaceState and pushState, which the host hands back as
\* event.state when the user navigates to the entry
WrittenPayloads ==
    {[state |-> last.calls[k].state, title |-> last.calls[k].title,
      location |-> last.calls[k].location] :
        k \in {j \in 1..Len(last.calls) : last.calls[j].call \in {"replaceState", "pushState"}}}

\* the host delivers a popstate event: window.onpopstate(event)
PopState(stateData) ==
    /\ browser
    /\ nEvents < MaxEvents
    /\ AfterPopState(stateData,
           onpopstate(Len(listeners), stateData,
                      Popped(Pushed(routers, <<>>, docTitle, href, FALSE, <<>>),
                             pauseUpdating, timers, <<>>, 0)))
    /\ nEvents' = nEvents + 1
    /\ UNCHANGED <<version, browser, appRoutes, historyBus, buses, listeners, unloading,
                   trial>>

\* The window.onbeforeunload installed by the k-th listenToPopState call;
\* its originalUnload is the handler of installation k - 1.
\* [paused, native]
RECURSIVE onbeforeunload(_, _)
onbeforeunload(k, acc) ==
    IF k = 0
    THEN [acc EXCEPT !.native = @ + 1]
    ELSE onbeforeunload(k - 1, [acc EXCEPT !.paused = TRUE])

\* the host delivers a beforeunload event: window.onbeforeunload()
BeforeUnload ==
    /\ browser
    /\ nEvents < MaxEvents
    /\ pauseUpdating' =
          onbeforeunload(Len(listeners), [paused |-> pauseUpdating, native |-> 0]).paused
    /\ last' = [Step("beforeunload") EXCEPT
                  !.nativeUnload =
                      onbeforeunload(Len(listeners),
                                     [paused |-> pauseUpdating, native |-> 0]).native,
                  !.installed = Len(listeners), !.pauseBefore = pauseUpdating]
    /\ unloading' = (unloading \/ listeners # <<>>)
    /\ nEvents' = nEvents + 1
    /\ UNCHANGED <<version, browser, appRoutes, historyBus, buses, routers, listeners,
                   timers, docTitle, href, trial>>

\* a scheduler turn runs one setTimeout callback of a popstate handler
TimerFire ==
    /\ timers > 0
    /\ timers' = timers - 1
    /\ pauseUpdating' = FALSE
    /\ last' = [Step("timer") EXCEPT !.pauseBefore = pauseUpdating]
    /\ UNCHANGED <<version, browser, appRoutes, historyBus, buses, routers, listeners,
                   docTitle, href, unloading, nEvents, trial>>

\* flatMap: every stream is forwarded
flatMap(g, latest) == TRUE

\* a switch that lets the stream before the latest one through as well
flatMapLatestTwo(g, latest) == g >= latest - 1

\* flatMapLatest: a value of the stream made for the g-th resolved record
\* is forwarded when that record is the latest one
flatMapLatest(g, latest) == g = latest

\* the stream a handler returned for the g-th record of router i produces a
\* value; forwarded says whether it came out of the router's stream
HandlerEmit(i, g) ==
    /\ i \in 1..Len(routers)
    /\ g \in 1..Len(routers[i].resolved)
    /\ routers[i].resolved[g].kind = "handler"
    /\ last' = [Step("emit") EXCEPT
                  !.router = i, !.gen = g,
                  !.forwarded = (~routers[i].ended
                                 /\ flatMapLatest(g, Len(routers[i].resolved)))]
    /\ UNCHANGED <<version, browser, appRoutes, pauseUpdating, historyBus, buses, routers,
                   listeners, timers, docTitle, href, unloading, nEvents, trial>>

Next ==
    \/ \E p \in InitialPaths : baconRouter(p, appRoutes)
    \/ \E h \in Pushes : Push(h)
    \/ \E s \in Payloads \cup WrittenPayloads : PopState(s)
    \/ BeforeUnload
    \/ TimerFire
    \/ \E i \in 1..MaxRouters, g \in 1..(MaxEvents + 1) : HandlerEmit(i, g)

Spec == Init /\ [][Next]_vars

\* the event loop runs every setTimeout callback in the end
LiveSpec == Init /\ [][Next]_vars /\ WF_vars(TimerFire)

\* ------------------------------------------- the resolver as a pure function
\* The flatMapLatest callback is a function of the route arguments and of
\* the record.  ResolveSpec calls it once on inputs that have queries,
\* fragments and percent-escapes, for tables of one or two entries.
\* Letters of the inputs: base "h"; paths of the tokens u i d a 4 7.
TrialRoutes ==
    { <<Str(<<"/", "u", "/", ":", "n">>), Fn>>,
      <<Str(<<"/", "a">>), Fn>>,
      <<Str(<<"/", "i", "/", ":", "p", "/", "d">>), Fn>>,
      <<Re("capLit", <<"/", "d">>), Fn>>,
      <<Re("lit", <<"a">>), Fn>>,
      <<Str(<<"/">>), Fn>>,
      <<Re("lit", <<"/">>), Fn>>,
      <<Re("dot", <<>>), Fn, Str(<<"/", "u", "/", ":", "n">>), Fn>>,
      <<Re("lit", <<"7">>), Fn, Str(<<"/", "u", "/", ":", "n">>), Fn>>,
      <<Re("lit", <<"7">>), Fn, Str(<<"/", "u", "/", ":", "n">>), FnThrows,
        Re("dot", <<>>), Fn>>,
      <<Re("lit", <<"7">>), Fn, Re("lit", <<"a">>), FnThrows>> }

TrialLocations ==
    { <<"h">>,
      <<"/", "u", "/", "h">>,
      <<"h", "/", "u", "/", "4">>,
      <<"h", "/", "u", "/", "4", "?", "a", "=", "1", "&", "b", "=", "2", "&", "d", "&",
        "c", "=", "3">>,
      <<"h", "/", "u", "/", "4", "#", "f">>,
      <<"h", "/", "u", "/", "4", "?", "a", "=", "1", "#", "f", "?", "b", "=", "2">>,
      <<"h", "/", "u", "/", "4", "?", "%E0", "=", "1", "&", "=", "5", "&", "a", "=", "1",
        "=", "2", "&", "&", "a", "=", "%61", "&", "b", "=">>,
      <<"h", "/", "u", "/", "4", "?", "c", "=", "1", "=", "2">>,
      <<"h", "/", "u", "/", "4", "?", "b", "=", "1", "&", "a", "=", "%E0">>,
      <<"h", "/", "u", "/", "%E0">>,
      <<"h", "/", "u", "/", "%E0", "?", "7">>,
      <<"h", "/", "i", "/", "7", "/", "d">>,
      <<"h", "/", "i", "/", "%2F", "/", "d", "?", "a", "=", "%61">>,
      <<"h", "/", "%61">>,
      <<"h", "/", "%61", "/", "?", "u", "=", "7", "#", "/", "d">> }

\* what the map callback of src/unnamed/part_000 makes of [route, handler]
\* chunks
TableOf(routesAndReturns) ==
    [j \in 1..Len(chunk(routesAndReturns, 2)) |->
        CompileEntry(chunk(routesAndReturns, 2)[j], j)]

\* the callback of the running version on route arguments and a record
ResolveWith(ver, routesAndReturns, h) ==
    IF ver = "index"
    THEN IndexResolve(BaseUrl, routesAndReturns, h)
    ELSE PartResolve(BaseUrl, TableOf(routesAndReturns), h)

ResolveInit ==
    /\ version \in {"index", "part"}
    /\ browser = FALSE
    /\ appRoutes = <<>>
    /\ pauseUpdating = FALSE
    /\ historyBus = 0
    /\ buses = 0
    /\ routers = <<>>
    /\ listeners = <<>>
    /\ timers = 0
    /\ docTitle = "doc"
    /\ href = <<"h", "/">>
    /\ unloading = FALSE
    /\ nEvents = 0
    /\ last = Step("init")
    /\ \E args \in TrialRoutes, l \in TrialLocations :
          trial = Trial(args, HistoryRecord(l, Null, Null, Absent), FALSE, Never(0))

\* the call is made
ResolveTrial ==
    /\ ~trial.done
    /\ trial' = [trial EXCEPT
                   !.done = TRUE,
                   !.result = ResolveWith(version, trial.routesAndReturns, trial.history)]
    /\ UNCHANGED <<version, browser, appRoutes, pauseUpdating, historyBus, buses, routers,
                   listeners, timers, docTitle, href, unloading, nEvents, last>>

ResolveNext == ResolveTrial

ResolveSpec == ResolveInit /\ [][ResolveNext]_vars

\* ================================================================== claims
\* the route entries of a router: its matchers in priority order
NumEntries(r) ==
    IF version = "index" THEN (Len(r.routesAndReturns) + 1) \div 2
    ELSE Len(r.routesAndHandlers)

Matcher(r, j) ==
    IF version = "index" THEN r.routesAndReturns[2 * j - 1]
    ELSE Re(r.routesAndHandlers[j].form, r.routesAndHandlers[j].text)

MatcherType(r, j) ==
    IF version = "index" THEN r.routesAndReturns[2 * j - 1].type
    ELSE r.routesAndHandlers[j].type

\* the matcher of entry j of router r matches record h
EntryMatches(r, j, h) ==
    LET m == Matcher(r, j)
        route == IF version = "index" THEN IndexCurrentRoute(r.baseUrl, h.location)
                 ELSE PartCurrentRoute(r.baseUrl, h.location)
        path == SplitRoute(route)[1]
        template == IF version = "index" /\ m.text = <<>> THEN <<"/">> ELSE m.text
    IN IF MatcherType(r, j) = "string"
       THEN CanDecode(path) /\ pathToRegexp(template, decodeURIComponent(path)).ok
       ELSE MatcherType(r, j) = "regexp" /\ RegExpExec(m.form, m.text, route).ok

Deliveries == {last.deliveries[k] : k \in 1..Len(last.deliveries)}

\* C1: whenever a record is resolved and a handler is invoked, it is the
\* handler of the lowest-index entry whose matcher matches the record, and
\* the loop has looked at no entry after it; when the resolution ends with
\* the inert sequence, no entry matches.
C1_FirstMatchWins ==
    \A d \in Deliveries :
        LET r == routers[d.router]
        IN /\ d.kind = "handler" =>
                /\ EntryMatches(r, d.entry, d.record)
                /\ \A j \in 1..(d.entry - 1) : ~EntryMatches(r, j, d.record)
                /\ d.tried = d.entry
           /\ d.kind = "never" =>
                \A j \in 1..NumEntries(r) : ~EntryMatches(r, j, d.record)

\* a handler was invoked for an entry that is not the only one to match
C1_Witness ==
    \E d \in Deliveries :
        /\ d.kind = "handler"
        /\ d.entry >= 2
        /\ \E j \in (d.entry + 1)..NumEntries(routers[d.router]) :
              EntryMatches(routers[d.router], j, d.record)

\* k >= 1 pairs of a string template or pattern and a callable handler
WellFormedPairs(args) ==
    /\ Len(args) >= 2
    /\ Len(args) % 2 = 0
    /\ \A i \in 1..Len(args) :
          IF i % 2 = 1 THEN args[i].type \in {"string", "regexp"}
          ELSE args[i].type = "function"

\* the pairs of an argument list, in argument order
PairsOf(args) ==
    [j \in 1..(Len(args) \div 2) |-> [matcher |-> args[2 * j - 1], handler |-> j]]

\* the entries a constructed router resolves with
EntriesOf(r) ==
    IF version = "index"
    THEN PairsOf(r.routesAndReturns)
    ELSE [j \in 1..Len(r.routesAndHandlers) |->
            [matcher |-> [type |-> r.routesAndHandlers[j].type,
                          form |-> r.routesAndHandlers[j].form,
                          text |-> r.routesAndHandlers[j].text],
             handler |-> r.routesAndHandlers[j].handler]]

\* C2: a construction with k >= 1 well-formed pairs raises no error and
\* yields exactly k route entries, entry j holding the j-th matcher and the
\* j-th handler.
C2_PairsBecomeEntries ==
    (last.op = "baconRouter" /\ WellFormedPairs(appRoutes)) =>
        /\ last.threw # "baconRouter"
        /\ last.router # 0
        /\ EntriesOf(routers[last.router]) = PairsOf(appRoutes)

\* a handler that is not callable or a matcher that is neither a string nor
\* a pattern, at some position
Malformed(args) ==
    \E i \in 1..(Len(args) + (Len(args) % 2)) :
        IF i % 2 = 1 THEN args[i].type \notin {"string", "regexp"}
        ELSE At(args, i).type # "function"

\* C3: a construction with a malformed argument fails in the constructor
\* call: the exception comes out of baconRouter, no router is returned and
\* no record is resolved.
C3_MalformedFailsConstruction ==
    (last.op = "baconRouter" /\ Malformed(appRoutes)) =>
        /\ last.threw = "baconRouter"
        /\ last.router = 0
        /\ last.deliveries = <<>>

EntryWrites == {"replaceState", "pushState"}

CallsOf(kinds) == {k \in 1..Len(last.calls) : last.calls[k].call \in kinds}

\* C4: in a browser with the pause flag clear, a push of a record that is
\* deep-equal to the current record of every router makes no host call.
C4_DuplicatePushWritesNothing ==
    (/\ last.op = "push"
     /\ browser
     /\ ~last.pauseBefore
     /\ last.deliveries # <<>>
     /\ \A d \in Deliveries : d.duplicate) => last.calls = <<>>

\* C5: a record pushed onto the bus reaches the resolver if and only if it
\* differs from the current record: an equal record runs no matcher and
\* adds no resolution, a different one is resolved, also when only its
\* state, title or shouldReplaceState differs.
C5_DedupByDeepEquality ==
    last.op \in {"push", "popstate"} =>
        \A d \in Deliveries :
            /\ d.emitted <=> ~d.duplicate
            /\ d.duplicate => (d.kind = "skipped" /\ d.tried = 0 /\ d.gen = d.genBefore)
            /\ (~d.duplicate /\ d.kind # "throw") => d.gen = d.genBefore + 1

\* a push with the location of the current record and another title was
\* resolved and its handler invoked
C5_Witness ==
    /\ last.op = "push"
    /\ \E d \in Deliveries :
          /\ d.before.location = d.record.location
          /\ d.before.title # d.record.title
          /\ d.emitted
          /\ d.kind = "handler"

C7_NoFeedbackWrite ==
    (last.op = "popstate" /\ last.payload /\ last.installed >= 1) =>
        /\ last.pushed # <<>>
        /\ \A k \in 1..Len(last.pushed) :
              last.pushed[k] = HistoryRecord(last.stateData.location, last.stateData.state,
                                             last.stateData.title, Absent)
        /\ CallsOf(EntryWrites) = {}

\* with the flag clear before, the record of a popstate event went through
\* the pipeline of the second of two routers, which had written before
C7_Witness ==
    /\ last.op = "popstate"
    /\ last.payload
    /\ ~last.pauseBefore
    /\ \E d \in Deliveries :
          d.router = 2 /\ d.emitted /\ routers[2].hasBooted

\* C8: once the beforeunload handler has run, the pause flag is true in
\* every later state and nothing is written to the host any more (no title,
\* no replaceState, no pushState), whatever happens later.
C8_UnloadIsFinal ==
    unloading => (pauseUpdating /\ CallsOf(EntryWrites \cup {"writeTitle"}) = {})

\* C9: a popstate event without a payload reloads the page and does nothing
\* else: no record is pushed, the pause flag and the pending timers are as
\* before, and the title is not written.
C9_NoPayloadReloadsOnly ==
    (last.op = "popstate" /\ ~last.payload /\ last.installed >= 1) =>
        /\ Len(last.calls) = 1
        /\ last.calls[1].call = "reload"
        /\ last.pushed = <<>>
        /\ last.deliveries = <<>>
        /\ pauseUpdating = last.pauseBefore
        /\ timers = last.timersBefore

\* a popstate event without a payload arrived with two listeners installed
\* and a pause-clear pending
C9_Witness ==
    /\ last.op = "popstate"
    /\ ~last.payload
    /\ last.installed >= 2
    /\ last.timersBefore > 0
    /\ CallsOf({"reload"}) # {}

\* C10: the handlers the page had set before the installation are invoked
\* on every popstate and every beforeunload event.
C10_NativeHandlersInvoked ==
    /\ last.op = "popstate" => last.nativePop = 1
    /\ last.op = "beforeunload" => last.nativeUnload = 1

\* the entry write the write-mode rule asks of a router for record h
WriteMode(bootedBefore, h) ==
    IF ~bootedBefore THEN "replaceState"
    ELSE IF Truthy(h.shouldReplaceState) THEN "replaceState"
    ELSE "pushState"

\* C11: in a browser, a router that writes for a record writes the title
\* first and then one entry: replaceState when it had not booted (and it is
\* booted afterwards), else replaceState when the record has
\* shouldReplaceState set, pushState otherwise.
C11_WriteModeStateMachine ==
    \A d \in Deliveries :
        d.calls # <<>> =>
            /\ Len(d.calls) = 2
            /\ d.calls[1].call = "writeTitle"
            /\ d.calls[2].call = WriteMode(d.bootedBefore, d.record)
            /\ routers[d.router].hasBooted

\* the route-relative string of record h for router r, and its path component
RouteOf(r, h) ==
    IF version = "index" THEN IndexCurrentRoute(r.baseUrl, h.location)
    ELSE PartCurrentRoute(r.baseUrl, h.location)

PathOf(r, h) == SplitRoute(RouteOf(r, h))[1]

\* C12: whatever the route table, a record whose path component holds an
\* invalid percent-escape resolves to one error value; no exception leaves
\* the resolver, no handler is invoked, and the result is not the inert
\* sequence.
C12_MalformedUrlIsErrorValue ==
    \A d \in Deliveries :
        (/\ d.emitted
         /\ d.record.location # NoLocation
         /\ ~CanDecode(PathOf(routers[d.router], d.record))) => d.kind = "error"

\* the least entry of router r whose matcher matches h, 0 when there is none
FirstEntry(r, h) ==
    IF \E j \in 1..NumEntries(r) : EntryMatches(r, j, h)
    THEN CHOOSE j \in 1..NumEntries(r) :
            EntryMatches(r, j, h) /\ \A k \in 1..(j - 1) : ~EntryMatches(r, k, h)
    ELSE 0

\* the resolution before delivery d gave the error value
AfterErrorValue(d) ==
    /\ d.genBefore >= 1
    /\ routers[d.router].resolved[d.genBefore].kind = "error"

\* C13: after a resolution that gave the error value the output has not
\* ended: the next record that differs from the current one is resolved;
\* when its path can be decoded the handler of its first matching entry is
\* invoked, and a value of that handler's stream is forwarded.
C13_ErrorValueIsConfined ==
    /\ \A d \in Deliveries :
          (AfterErrorValue(d) /\ ~d.duplicate) =>
              /\ d.emitted
              /\ ~routers[d.router].ended
              /\ d.kind # "throw" => d.gen = d.genBefore + 1
              /\ (d.kind # "throw" /\ CanDecode(PathOf(routers[d.router], d.record))) =>
                     (d.kind = "handler" <=> FirstEntry(routers[d.router], d.record) # 0)
              /\ d.kind = "handler" => d.entry = FirstEntry(routers[d.router], d.record)
    /\ (/\ last.op = "emit"
        /\ last.gen >= 2
        /\ last.gen = Len(routers[last.router].resolved)
        /\ routers[last.router].resolved[last.gen - 1].kind = "error") => last.forwarded

\* the handler invoked for the record after a malformed one produced a value
C13_Witness ==
    /\ last.op = "emit"
    /\ last.gen >= 2
    /\ last.gen = Len(routers[last.router].resolved)
    /\ routers[last.router].resolved[last.gen - 1].kind = "error"
    /\ last.forwarded

\* the resolution before delivery d gave the inert sequence after it had
\* tried at least one entry
AfterNever(d) ==
    /\ d.genBefore >= 1
    /\ routers[d.router].resolved[d.genBefore].kind = "never"
    /\ routers[d.router].resolved[d.genBefore].tried >= 1

\* C14: a resolved record with a location and a decodable path that no
\* entry of a well-formed table matches invokes no handler and yields the
\* inert sequence: that resolution produces no value, no error and no end,
\* and the router resolves the records that follow.
C14_NoMatchIsInert ==
    /\ \A d \in Deliveries :
          /\ (/\ d.emitted
               /\ d.record.location # NoLocation
               /\ ~Malformed(routers[d.router].routesAndReturns)
               /\ CanDecode(PathOf(routers[d.router], d.record))
               /\ FirstEntry(routers[d.router], d.record) = 0) =>
                  /\ d.kind = "never"
                  /\ d.entry = 0
                  /\ d.tried = NumEntries(routers[d.router])
                  /\ d.gen = d.genBefore + 1
                  /\ ~routers[d.router].ended
          /\ (AfterNever(d) /\ ~d.duplicate) =>
                  /\ d.emitted
                  /\ d.kind # "throw" => d.gen = d.genBefore + 1
    /\ last.op = "emit" => routers[last.router].resolved[last.gen].kind = "handler"

\* a record that no entry matched was followed by one whose handler was
\* invoked
C14_Witness ==
    \E d \in Deliveries : AfterNever(d) /\ ~d.duplicate /\ d.kind = "handler"

\* the seed the specification describes: base path and initial path joined
\* with nothing between them
SeedAsSpecified(r) == HistoryRecord(r.baseUrl \o r.initialPath, Null, Null, Absent)

\* C15: before any bus push the current record of a router, which is also
\* the first record its resolver resolves, is {location: base path followed
\* directly by the initial path, state: null, title: null}.
C15_SeedIsBaseThenInitialPath ==
    (last.op = "baconRouter" /\ last.router # 0) =>
        \A d \in Deliveries :
            /\ d.before = SeedAsSpecified(routers[d.router])
            /\ d.record = SeedAsSpecified(routers[d.router])
            /\ d.emitted
            /\ d.genBefore = 0

\* C16: outside a browser the router never touches the host: no title
\* write, no replaceState, no pushState and no reload happens, the title and
\* the address stay as they were, no router is booted, and a construction
\* installs no popstate and no beforeunload handler (so the pause flag is
\* never set and no pause-clear is ever scheduled).
C16_NoHostAccessOutsideBrowser ==
    ~browser =>
        /\ last.calls = <<>>
        /\ \A d \in Deliveries : d.calls = <<>>
        /\ \A i \in 1..Len(routers) : ~routers[i].hasBooted
        /\ listeners = <<>>
        /\ docTitle = "doc"
        /\ href = <<"h", "/">>
        /\ ~pauseUpdating
        /\ timers = 0

\* outside a browser a second router was constructed and its seed went
\* through doAction and was resolved by a handler
C16_Witness ==
    /\ ~browser
    /\ last.op = "baconRouter"
    /\ last.router = 2
    /\ \E d \in Deliveries : d.emitted /\ d.kind = "handler" /\ ~d.paused

\* one step seen from the accessor: the buses made so far are 1..buses
AccessorStep ==
    /\ browser =>
          /\ buses' <= 1
          /\ historyBus' = buses'
          /\ historyBus # 0 => historyBus' = historyBus
          /\ \A i \in 1..Len(routers') : routers'[i].bus = historyBus'
    /\ (last'.op \in {"push", "baconRouter"} /\ last'.threw # "baconRouter") =>
          IF browser
          THEN last'.bus = historyBus' /\ last'.bus # 0
          ELSE /\ last'.bus = buses + 1
               /\ buses' = buses + 1
               /\ historyBus' = 0
               /\ last'.op = "baconRouter" =>
                     /\ routers'[last'.router].bus = last'.bus
                     /\ \A i \in 1..Len(routers) : routers'[i].bus < last'.bus

\* C17: in a browser every accessor call and every construction obtains
\* one and the same bus, made at the first access and never replaced;
\* outside a browser every call obtains a new bus, different from every bus
\* obtained before.
C17_SharedBusAccessor == [][AccessorStep]_vars

\* in a browser a push went through the accessor after two routers had
\* been constructed, and all three hold the same bus
C17_Witness ==
    /\ browser
    /\ last.op = "push"
    /\ Len(routers) = 2
    /\ routers[1].bus = last.bus
    /\ routers[2].bus = last.bus
    /\ Len(last.deliveries) = 2

\* ------------------------------------------------ claims on single calls
\* the route-relative string of the trial as it appeared, and its path
TrialRoute == RouteOf([baseUrl |-> BaseUrl], trial.history)

TrialPath == SplitRoute(TrialRoute)[1]

\* the first route argument of the trial
TrialFirst == trial.routesAndReturns[1]

\* does a pattern of the model match the text raw, and which groups does it
\* capture: /./ and /text/ have no group, /(.+)text/ has one that takes all
\* before the last occurrence of text that leaves it one character
PatternMatches(form, text, raw) ==
    IF form = "dot" THEN Len(raw) >= 1
    ELSE IF form = "lit" THEN \E i \in 1..Len(raw) : OccursAt(raw, text, i)
    ELSE \E i \in 2..Len(raw) : OccursAt(raw, text, i)

PatternCaptures(form, text, raw) ==
    IF form = "capLit"
    THEN LET i == CHOOSE i \in 2..Len(raw) :
                     OccursAt(raw, text, i) /\ \A j \in 2..Len(raw) : OccursAt(raw, text, j) => j <= i
         IN <<SubSeq(raw, 1, i - 1)>>
    ELSE <<>>

\* a table whose first entry is a pattern, called on a record whose path
\* can be decoded: the handler of that entry is invoked exactly when the
\* pattern matches the raw route-relative string, and its arguments are
\* the capture groups and nothing else
PatternOnRawString ==
    (trial.done /\ TrialFirst.type = "regexp" /\ CanDecode(TrialPath)) =>
        /\ (trial.result.kind = "handler" /\ trial.result.entry = 1) <=>
              PatternMatches(TrialFirst.form, TrialFirst.text, TrialRoute)
        /\ (trial.result.kind = "handler" /\ trial.result.entry = 1) =>
              /\ trial.result.captures =
                    PatternCaptures(TrialFirst.form, TrialFirst.text, TrialRoute)
              /\ trial.result.params = <<>>
              /\ trial.result.query = <<>>
              /\ trial.result.hash = <<>>

\* the trial of the pattern /(.+)\/d/ on the relative route /i/7/d
DetailTrial ==
    /\ trial.done
    /\ TrialFirst = Re("capLit", <<"/", "d">>)
    /\ TrialRoute = <<"/", "i", "/", "7", "/", "d">>

\* C18 as stated: a pattern entry is matched against the raw route-relative
\* string and its handler gets exactly the capture groups; for /(.+)\/d/
\* on /i/7/d that is the single argument "i/7".
C18_PatternCapturesAsStated ==
    /\ PatternOnRawString
    /\ DetailTrial => trial.result.captures = << <<"i", "/", "7">> >>

\* C18 amended: a pattern entry is matched against the raw route-relative
\* string and its handler gets exactly the capture groups; for /(.+)\/d/
\* on /i/7/d that is the single argument "/i/7", the group starting at the
\* first character of the string.
C18_PatternCaptures ==
    /\ PatternOnRawString
    /\ DetailTrial => trial.result.captures = << <<"/", "i", "/", "7">> >>

\* a pattern with a group matched a string that holds an escape and a
\* query, and the handler got the text with the escape as it was
C18_Witness ==
    /\ trial.done
    /\ TrialFirst.form = "capLit"
    /\ trial.result.kind = "handler"
    /\ trial.result.captures = << <<"/", "i", "/", "%2F">> >>

\* the segments of a path or template between its slashes, one trailing
\* slash not counting
SegmentsOf(s) ==
    IF s # <<>> /\ s[Len(s)] = "/" THEN Split(SubSeq(s, 1, Len(s) - 1), "/")
    ELSE Split(s, "/")

IsParam(seg) == seg # <<>> /\ seg[1] = ":"

\* a template matches a decoded path when they have the same number of
\* segments and each template segment is a parameter over a non-empty path
\* segment or equal to the path segment
TemplateMatches(template, path) ==
    /\ Len(SegmentsOf(template)) = Len(SegmentsOf(path))
    /\ \A k \in 1..Len(SegmentsOf(template)) :
          IF IsParam(SegmentsOf(template)[k])
          THEN SegmentsOf(path)[k] # <<>>
          ELSE SegmentsOf(path)[k] = SegmentsOf(template)[k]

\* parameter name (one token) and captured text, in template order
TemplateParams(template, path) ==
    LET ks == SelectSeq([k \in 1..Len(SegmentsOf(template)) |-> k],
                        LAMBDA k : IsParam(SegmentsOf(template)[k]))
    IN [n \in 1..Len(ks) |->
           <<SegmentsOf(template)[ks[n]][2], SegmentsOf(path)[ks[n]]>>]

\* the text after the first "#" of the route-relative string
FragmentOf(route) ==
    IF FirstOf(route, {"#"}) > Len(route) THEN <<>>
    ELSE SubSeq(route, FirstOf(route, {"#"}) + 1, Len(route))

\* the percent-decoded text of a path whose escapes are all valid
Decoded(path) ==
    [k \in 1..Len(path) |->
        IF path[k] = "%2F" THEN "/" ELSE IF path[k] = "%61" THEN "a" ELSE path[k]]

\* C19: a table whose first entry is a string template, called on a record
\* whose path can be decoded: whether the handler of that entry is invoked,
\* and with which params, depends on the decoded path alone (not on the
\* query, not on the fragment); the handler gets {params, query, hash},
\* params giving each parameter name the text at its position and hash
\* being the fragment, and it gets no capture arguments.
C19_TemplateOnDecodedPath ==
    (trial.done /\ TrialFirst.type = "string" /\ CanDecode(TrialPath)) =>
        /\ (trial.result.kind = "handler" /\ trial.result.entry = 1) <=>
              TemplateMatches(TrialFirst.text, Decoded(TrialPath))
        /\ (trial.result.kind = "handler" /\ trial.result.entry = 1) =>
              /\ trial.result.params = TemplateParams(TrialFirst.text, Decoded(TrialPath))
              /\ trial.result.hash = FragmentOf(TrialRoute)
              /\ trial.result.captures = <<>>

\* the template /u/:n matched a location with a query and a fragment: the
\* handler got n = "4" and the fragment
C19_Witness ==
    /\ trial.done
    /\ TrialFirst = Str(<<"/", "u", "/", ":", "n">>)
    /\ trial.result.kind = "handler"
    /\ trial.result.params = << <<"n", <<"4">>>> >>
    /\ trial.result.query # <<>>
    /\ trial.result.hash = <<"f", "?", "b", "=", "2">>

\* the search part of the route-relative string: between the first "?" that
\* comes before any "#" and the first "#"
SearchOf(route) == SplitRoute(route)[2]

\* the entries of a search string that have a "=", a key, and valid escapes
WellFormedEntries(search) ==
    {k \in 1..Len(Split(search, "&")) :
        /\ \E i \in 1..Len(Split(search, "&")[k]) : Split(search, "&")[k][i] = "="
        /\ Split(search, "&")[k][1] # "="
        /\ CanDecode(Take(Split(Split(search, "&")[k], "="), 2)[1])
        /\ CanDecode(Take(Split(Split(search, "&")[k], "="), 2)[2])}

KeyOfEntry(search, k) == Decoded(Split(Split(search, "&")[k], "=")[1])

KeysOf(query) == {query[i][1] : i \in 1..Len(query)}

\* the handler of a string template was invoked in the trial
TemplateHandlerInvoked ==
    /\ trial.done
    /\ trial.result.kind = "handler"
    /\ trial.routesAndReturns[2 * trial.result.entry - 1].type = "string"

\* the trial whose search string is a=1&b=2&d&c=3
SiblingsTrial ==
    /\ TemplateHandlerInvoked
    /\ SearchOf(TrialRoute) =
          <<"a", "=", "1", "&", "b", "=", "2", "&", "d", "&", "c", "=", "3">>

\* C20: the query mapping a string-template handler gets has a key for each
\* entry of the search string that has a "=" and for no other entry; the
\* search string a=1&b=2&d&c=3 gives exactly the keys a, b, c with the
\* values 1, 2, 3.
C20_QueryDropsEntriesWithoutEquals ==
    /\ TemplateHandlerInvoked =>
          KeysOf(trial.result.query) =
              {KeyOfEntry(SearchOf(TrialRoute), k) :
                  k \in WellFormedEntries(SearchOf(TrialRoute))}
    /\ SiblingsTrial =>
          trial.result.query = << <<<<"a">>, <<"1">>>>, <<<<"b">>, <<"2">>>>, <<<<"c">>, <<"3">>>> >>

\* a search string that is one entry with a key, a "=" and valid escapes
SingleEntry(search) ==
    /\ FirstOf(search, {"&"}) > Len(search)
    /\ FirstOf(search, {"="}) > 1
    /\ FirstOf(search, {"="}) <= Len(search)
    /\ CanDecode(search)

\* C21: an entry is split on its first "=" alone: the key is the decoded
\* text before it and the value the decoded text of all that follows it, so
\* the entry c=1=2 gives c the value "1=2".
C21_ValueKeepsLaterEquals ==
    (TemplateHandlerInvoked /\ SingleEntry(SearchOf(TrialRoute))) =>
        trial.result.query =
            << << Decoded(SubSeq(SearchOf(TrialRoute), 1,
                                 FirstOf(SearchOf(TrialRoute), {"="}) - 1)),
                  Decoded(SubSeq(SearchOf(TrialRoute),
                                 FirstOf(SearchOf(TrialRoute), {"="}) + 1,
                                 Len(SearchOf(TrialRoute)))) >> >>

\* ------------------------------------------------------- claims on the router
\* the pause flag is set while the record of a popstate event propagates
\* and when the handler has returned
PauseHeldThroughPopState ==
    (last.op = "popstate" /\ last.payload /\ last.installed >= 1) =>
        /\ pauseUpdating
        /\ last.deliveries # <<>>
        /\ \A d \in Deliveries : d.paused

\* a step that clears the flag is a setTimeout callback
ClearedByTimerOnly == (pauseUpdating /\ ~pauseUpdating') => last'.op = "timer"

\* C22: after a popstate event with a payload the pause flag is set during
\* the whole propagation of the pushed record and when the handler returns,
\* only a later scheduler turn clears it, and when that turn is scheduled
\* fairly and no beforeunload event comes in between the flag is cleared in
\* the end.
C22_DeferredPauseClear ==
    /\ []PauseHeldThroughPopState
    /\ [][ClearedByTimerOnly]_vars
    /\ (pauseUpdating /\ ~unloading) ~> (~pauseUpdating \/ unloading)

\* C23: a router is booted if and only if it has written an entry to the
\* host; an emission whose write was skipped (pause flag set, or no browser)
\* leaves the flag as it was, and the first entry a router writes is
\* written with replaceState.
C23_BootedIffWritten ==
    /\ \A i \in 1..Len(routers) : routers[i].hasBooted <=> routers[i].wrote
    /\ \A d \in Deliveries :
          /\ d.calls = <<>> => d.booted = d.bootedBefore
          /\ (d.calls # <<>> /\ ~d.bootedBefore) =>
                (d.booted /\ d.calls[Len(d.calls)].call = "replaceState")

\* a router whose seed was skipped under the pause flag wrote its first
\* entry for a later push
C23_Witness ==
    /\ last.op = "push"
    /\ \E d \in Deliveries :
          /\ ~d.bootedBefore
          /\ d.calls # <<>>
          /\ d.calls[Len(d.calls)].call = "replaceState"
          /\ routers[d.router].hasBooted

\* the k-th subscriber of the bus got the record as it was pushed, holds it
\* as its current record in place of the one before, and hands it to the
\* resolver unless it is deep-equal to the one before
DeliveredAsPushed(k, id, h) ==
    /\ k <= Len(last.deliveries)
    /\ last.deliveries[k].router = id
    /\ last.deliveries[k].record = h
    /\ routers[id].current = h
    /\ last.deliveries[k].emitted <=> ~isEqual(last.deliveries[k].before, h)

\* C24: every router resolves its seed first, and every record pushed onto
\* its bus reaches it, in push order and exactly as pushed (nothing of the
\* record before is carried over), and is resolved unless it is deep-equal
\* to the record just before it.
C24_FoldOrderAndReplacement ==
    /\ (last.op = "baconRouter" /\ last.router # 0) =>
          /\ Len(last.deliveries) = 1
          /\ last.deliveries[1].record = Seed(BaseUrl, routers[last.router].initialPath)
          /\ last.deliveries[1].emitted
    /\ last.op = "push" =>
          /\ Len(last.deliveries) = Len(SubscribersOf(last.bus))
          /\ \A k \in 1..Len(SubscribersOf(last.bus)) :
                DeliveredAsPushed(k, SubscribersOf(last.bus)[k], last.pushed[1])

\* the root path
Root == <<"/">>

\* the trial of a record whose location is the base path alone
BaseAloneTrial ==
    /\ trial.done
    /\ trial.history.location = BaseUrl

PrefixStripped(baseUrl, location) ==
    IF Take(location, Len(baseUrl)) = baseUrl
    THEN Drop(location, Len(baseUrl))
    ELSE location

\* the trial of a record whose location does not begin with the base path
\* and holds its text further on
BaseLaterTrial ==
    /\ trial.done
    /\ trial.history.location # NoLocation
    /\ Take(trial.history.location, Len(BaseUrl)) # BaseUrl
    /\ IndexOf(trial.history.location, BaseUrl) > 1

\* C26: the base path is removed as a prefix only. A record is resolved on
\* what follows the base path when its location begins with it, and on its
\* whole location when it does not, also when the text of the base path
\* occurs further on in the location: the result is that of the record whose
\* location is the base path followed by that route-relative string.
C26_BaseStrippedAsPrefixOnly ==
    (trial.done /\ trial.history.location # NoLocation) =>
        /\ PrefixStripped(BaseUrl, trial.history.location) # <<>> =>
              TrialRoute = PrefixStripped(BaseUrl, trial.history.location)
        /\ trial.result =
              ResolveWith(version, trial.routesAndReturns,
                  [trial.history EXCEPT
                      !.location = BaseUrl \o PrefixStripped(BaseUrl, @)])

\* C27: a record pushed without a location is valid input: the push lets no
\* exception out, and every router on the bus takes the record without
\* throwing.
C27_LocationlessRecordIsValid ==
    (last.op = "push" /\ last.pushed[1].location = NoLocation) =>
        /\ last.threw = "no"
        /\ Len(last.deliveries) = Len(SubscribersOf(last.bus))
        /\ \A k \in 1..Len(last.deliveries) : last.deliveries[k].kind # "throw"

\* the entries of a search string
SearchEntries(search) == Split(search, "&")

\* an entry is a pair when it holds a "="; its key is the text before the
\* first "=" and its value the text after it
IsPair(e) == FirstOf(e, {"="}) <= Len(e)

PairKey(e) == Take(e, FirstOf(e, {"="}) - 1)

PairValue(e) == Drop(e, FirstOf(e, {"="}))

\* a pair that is kept: key and value can be decoded and the key is not empty
KeptPair(e) ==
    /\ IsPair(e)
    /\ PairKey(e) # <<>>
    /\ CanDecode(PairKey(e))
    /\ CanDecode(PairValue(e))

DroppedPair(e) == IsPair(e) /\ ~KeptPair(e)

\* entry k is the last kept pair of its key
LastOfKey(search, k) ==
    \A j \in (k + 1)..Len(SearchEntries(search)) :
        KeptPair(SearchEntries(search)[j]) =>
            Decoded(PairKey(SearchEntries(search)[j])) # Decoded(PairKey(SearchEntries(search)[k]))

\* the value the mapping has for a key
ValueOfKey(query, key) == (CHOOSE i \in 1..Len(query) : query[i][1] = key)

\* a trial whose first entry is a template that matches the path, the search
\* string holding a pair that is to be dropped
DroppedPairTrial ==
    /\ trial.done
    /\ TrialFirst.type = "string"
    /\ CanDecode(TrialPath)
    /\ TemplateMatches(TrialFirst.text, Decoded(TrialPath))
    /\ \E k \in 1..Len(SearchEntries(SearchOf(TrialRoute))) :
          DroppedPair(SearchEntries(SearchOf(TrialRoute))[k])

\* C28: a pair whose key or value cannot be percent-decoded, or whose key is
\* empty, is dropped alone: the record does not resolve to the MalformedURL
\* error, the handler of the matching template is invoked, every other pair
\* has its decoded key in the mapping (with the decoded value of the last
\* pair of that key, for a value that holds no further "="), and no key of
\* the mapping comes from a dropped pair.
C28_BadQueryPairDroppedAlone ==
    DroppedPairTrial =>
        /\ trial.result.kind = "handler"
        /\ trial.result.entry = 1
        /\ \A k \in 1..Len(SearchEntries(SearchOf(TrialRoute))) :
              KeptPair(SearchEntries(SearchOf(TrialRoute))[k]) =>
                 /\ Decoded(PairKey(SearchEntries(SearchOf(TrialRoute))[k]))
                       \in KeysOf(trial.result.query)
                 /\ (/\ LastOfKey(SearchOf(TrialRoute), k)
                     /\ ~IsPair(PairValue(SearchEntries(SearchOf(TrialRoute))[k]))) =>
                       trial.result.query[
                           ValueOfKey(trial.result.query,
                               Decoded(PairKey(SearchEntries(SearchOf(TrialRoute))[k])))][2]
                         = Decoded(PairValue(SearchEntries(SearchOf(TrialRoute))[k]))
        /\ \A i \in 1..Len(trial.result.query) :
              \E k \in 1..Len(SearchEntries(SearchOf(TrialRoute))) :
                 /\ ~DroppedPair(SearchEntries(SearchOf(TrialRoute))[k])
                 /\ CanDecode(SearchEntries(SearchOf(TrialRoute))[k])
                 /\ trial.result.query[i][1] =
                       Decoded(IF IsPair(SearchEntries(SearchOf(TrialRoute))[k])
                               THEN PairKey(SearchEntries(SearchOf(TrialRoute))[k])
                               ELSE SearchEntries(SearchOf(TrialRoute))[k])

\* the pairs %E0=1 and =5 were dropped and the handler got a and b; the pair
\* a=%E0 was dropped and the handler got b, which came before it
C28_Witness ==
    /\ DroppedPairTrial
    /\ trial.result.kind = "handler"
    /\ \/ /\ SearchEntries(SearchOf(TrialRoute))[1] = <<"%E0", "=", "1">>
          /\ trial.result.query = << <<<<"a">>, <<"a">>>>, <<<<"b">>, <<>>>> >>
       \/ /\ SearchEntries(SearchOf(TrialRoute))[2] = <<"a", "=", "%E0">>
          /\ trial.result.query = << <<<<"b">>, <<"1">>>> >>

\* C29: after a record that matches no entry has been resolved, a value of
\* the stream a handler made for an earlier record does not come out of the
\* router's stream: while the latest resolved record is one without a match,
\* nothing is forwarded.
C29_NoMatchSupersedes ==
    (/\ last.op = "emit"
     /\ routers[last.router].resolved[Len(routers[last.router].resolved)].kind = "never") =>
        ~last.forwarded

\* the handler stream of the record just before an unmatched one produced a
\* value, which was discarded
C29_Witness ==
    /\ last.op = "emit"
    /\ last.gen = Len(routers[last.router].resolved) - 1
    /\ routers[last.router].resolved[last.gen].kind = "handler"
    /\ routers[last.router].resolved[last.gen + 1].kind = "never"
    /\ ~last.forwarded

\* the delivery made a host entry write carrying the state of its record
WroteEntryFor(d) ==
    \E k \in 1..Len(d.calls) :
        /\ d.calls[k].call \in EntryWrites
        /\ d.calls[k].by = d.router
        /\ d.calls[k].state = d.record.state

\* C30: in a browser, before any beforeunload event, every router that gets
\* a pushed record other than its current one writes a host entry for it,
\* also when the push comes after a popstate event with a payload and before
\* the timer of that event has cleared the pause flag.
C30_PauseSuppressesReconciliationOnly ==
    (last.op = "push" /\ browser /\ ~unloading) =>
        \A d \in Deliveries : ~d.duplicate => WroteEntryFor(d)

\* C31: in a browser, whatever the number of routers constructed, one push
\* onto the bus makes at most one host entry write in all, and one popstate
\* event with a payload pushes exactly one record onto the bus.
C31_OneWriteOnePushPerEvent ==
    browser =>
        /\ last.op = "push" => Cardinality(CallsOf(EntryWrites)) <= 1
        /\ (last.op = "popstate" /\ last.payload /\ last.installed >= 1) =>
              Len(last.pushed) = 1

\* the location the host entry of a record is written with
EffectiveLocation(h, current) == IF HasLocation(h.location) THEN h.location ELSE current

\* every entry write carries the state of its record, its title or else the
\* document title, and its location or else the current location
EntriesCarryPayload ==
    \A d \in Deliveries :
        \A k \in 1..Len(d.calls) :
            d.calls[k].call \in EntryWrites =>
                /\ d.calls[k].state = d.record.state
                /\ d.calls[k].title =
                      (IF Truthy(d.record.title) THEN d.record.title ELSE docTitle)
                /\ d.calls[k].location = EffectiveLocation(d.record, href)

\* the payload of an entry write of delivery d
PayloadsOf(d) ==
    {[state |-> d.calls[k].state, title |-> d.calls[k].title,
      location |-> d.calls[k].location] :
        k \in {j \in 1..Len(d.calls) : d.calls[j].call \in EntryWrites}}

\* a popstate event for an entry written in the step before: no reload, and
\* every record it pushes has the state and the location of the record that
\* wrote the entry
BackToWrittenEntry ==
    (last'.op = "popstate" /\ last'.installed >= 1) =>
        \A d \in Deliveries :
            last'.stateData \in PayloadsOf(d) =>
                /\ last'.payload
                /\ \A k \in 1..Len(last'.calls) : last'.calls[k].call # "reload"
                /\ last'.pushed # <<>>
                /\ \A j \in 1..Len(last'.pushed) :
                      /\ last'.pushed[j].state = d.record.state
                      /\ last'.pushed[j].location = EffectiveLocation(d.record, href)

\* C32: every host entry a router writes carries the payload {state, title,
\* location} of its record, title and location being the effective ones; a
\* popstate event for such an entry has a payload, does not reload the page,
\* and pushes a record with the state and the location of the record that
\* wrote the entry.
C32_BackNavigationRoundTrip ==
    /\ []EntriesCarryPayload
    /\ [][BackToWrittenEntry]_vars

\* a popstate event came for an entry written with the document title (the
\* record that wrote it had none) and its record was pushed onto the bus
C32_Witness ==
    /\ last.op = "popstate"
    /\ last.installed >= 1
    /\ last.stateData.title = "doc"
    /\ last.stateData.state = Null
    /\ last.pushed # <<>>
    /\ last.pushed[1].location = <<"h", "/", "a">>

\* does entry e of the trial's table match the record
TrialEntryMatches(e) ==
    IF trial.routesAndReturns[2 * e - 1].type = "string"
    THEN TemplateMatches(trial.routesAndReturns[2 * e - 1].text, Decoded(TrialPath))
    ELSE PatternMatches(trial.routesAndReturns[2 * e - 1].form,
                        trial.routesAndReturns[2 * e - 1].text, TrialRoute)

\* entry e is the winning entry of the trial and its handler throws
ThrowingWinner(e) ==
    /\ trial.done
    /\ trial.history.location # NoLocation
    /\ CanDecode(TrialPath)
    /\ e \in 1..(Len(trial.routesAndReturns) \div 2)
    /\ trial.routesAndReturns[2 * e] = FnThrows
    /\ TrialEntryMatches(e)
    /\ \A j \in 1..(e - 1) : ~TrialEntryMatches(j)

\* C33: when the handler of the winning entry throws as it is called, the
\* record resolves to one error value: no exception leaves the resolver and
\* the loop looks at no entry after the winning one.
C33_HandlerThrowIsErrorValue ==
    \A e \in 1..3 :
        ThrowingWinner(e) =>
            /\ trial.result.kind = "error"
            /\ trial.result.tried = e

\* C34: outside a browser a router resolves its seed and nothing else: its
\* bus is its own (no other router has it and no push of the application
\* goes onto it), its current record stays the seed, and it has resolved at
\* most one record, exactly one when resolving the seed did not throw.
C34_SeedOnlyOutsideBrowser ==
    ~browser =>
        /\ \A i \in 1..Len(routers) :
              /\ routers[i].current = Seed(BaseUrl, routers[i].initialPath)
              /\ Len(routers[i].resolved) <= 1
              /\ Resolve(version, routers[i], routers[i].current).kind # "throw" =>
                    Len(routers[i].resolved) = 1
              /\ \A j \in 1..Len(routers) : routers[j].bus = routers[i].bus => j = i
        /\ last.op = "push" =>
              /\ last.deliveries = <<>>
              /\ \A i \in 1..Len(routers) : routers[i].bus # last.bus

\* outside a browser a record other than the seed was pushed onto a bus got
\* from the accessor, with a router constructed whose seed a handler had
\* resolved: the router did not get the record
C34_Witness ==
    /\ ~browser
    /\ last.op = "push"
    /\ last.pushed[1].location = <<"h", "/", "b">>
    /\ Len(routers) >= 1
    /\ Len(routers[1].resolved) = 1
    /\ routers[1].resolved[1].kind = "handler"
    /\ last.deliveries = <<>>

====
